---- MODULE Spec2Model ----
(***************************************************************************)
(* Model of the presentation generator of src/app.py: StructureBot,        *)
(* ContentBot and PPTBot (generate_presentation, generate_image,           *)
(* create_powerpoint and the layout routines).                             *)
(*                                                                         *)
(* Text is a sequence of tokens, files are records in a map from file name *)
(* to file kind, a presentation is a sequence of slides and a slide is the *)
(* sequence of the shapes added to it.  The language model, the image      *)
(* service and the file system are the environment: every call draws its   *)
(* outcome from a small set.                                               *)
(***************************************************************************)
EXTENDS Integers, Sequences, FiniteSets, TLC

\* ------------------------------------------------------------------------
\* Bounds of the model
\* ------------------------------------------------------------------------
\* largest slides_count of the StructureBot specification
MaxCount == 20
\* largest slides_count of the pipeline specifications
MaxSlides == 5
\* environment faults (other than the outline call) in one pipeline run
MaxFaults == 1
\* direct calls of generate_image in the image specification
MaxCalls == 3

\* smallest slides_count the endpoint accepts
MinSlides == 3

Min(S) == CHOOSE x \in S : \A y \in S : x <= y

\* ------------------------------------------------------------------------
\* Text: sequences of tokens
\* ------------------------------------------------------------------------
Tok(t, v) == [t |-> t, v |-> v]
TFence == Tok("fence", "")        \* the three backquotes
TJson == Tok("word", "json")      \* the word json
TWs == Tok("ws", "")              \* white space
TJunk == Tok("junk", "")          \* text that is not JSON
TPayload(v) == Tok("payload", v)  \* a syntactically valid JSON document

\* the string literal "```" and the separator "```json"
FenceLiteral == <<TFence>>
FenceJsonLiteral == <<TFence, TJson>>

\* truth value of a Python str
Truthy(s) == Len(s) > 0

IsPrefixAt(s, sep, i) ==
    /\ i + Len(sep) - 1 <= Len(s)
    /\ SubSeq(s, i, i + Len(sep) - 1) = sep

\* the in operator of str
Contains(s, sep) == \E i \in 1..Len(s) : IsPrefixAt(s, sep, i)

\* str.split(sep)
RECURSIVE Split(_, _)
Split(s, sep) ==
    LET idx == {i \in 1..Len(s) : IsPrefixAt(s, sep, i)}
    IN  IF idx = {} THEN <<s>>
        ELSE LET i == Min(idx)
             IN  <<SubSeq(s, 1, i - 1)>> \o Split(SubSeq(s, i + Len(sep), Len(s)), sep)

\* str.strip()
RECURSIVE Strip(_)
Strip(s) ==
    IF s = <<>> THEN s
    ELSE IF Head(s) = TWs THEN Strip(Tail(s))
    ELSE IF s[Len(s)] = TWs THEN Strip(SubSeq(s, 1, Len(s) - 1))
    ELSE s

\* Python values of the extraction code: a str or a list of str
PyStr(s) == [ty |-> "str", s |-> s, items |-> <<>>]
PyList(l) == [ty |-> "list", s |-> <<>>, items |-> l]

\* result of an evaluation that may raise
Ok(v) == [exc |-> "", val |-> v]
Raise(e, v) == [exc |-> e, val |-> v]

\* v.split(sep): only a str has the method
MethodSplit(v, sep) ==
    IF v.ty = "str" THEN Ok(PyList(Split(v.s, sep)))
    ELSE Raise("AttributeError", v)

\* v.strip(): only a str has the method
MethodStrip(v) ==
    IF v.ty = "str" THEN Ok(PyStr(Strip(v.s)))
    ELSE Raise("AttributeError", v)

\* ------------------------------------------------------------------------
\* Slide specs and JSON documents
\* ------------------------------------------------------------------------
RequiredKeys == {"slide_number", "title", "design_type", "key_points"}

SlideDict(num, title, design, points, keys) ==
    [slide_number |-> num, title |-> title, design_type |-> design,
     key_points |-> points, keys |-> keys]

Title(kind, n) == [kind |-> kind, n |-> n]

\* the outline a well-behaved model writes for n slides
LlmDesign(i, n) ==
    IF i = 1 THEN "title"
    ELSE IF i = n THEN "conclusion"
    ELSE IF i % 2 = 0 THEN "image_focus" ELSE "content"

LlmSlide(i, n) ==
    SlideDict(i, Title("llm", i), LlmDesign(i, n), <<"p1", "p2", "p3">>, RequiredKeys)

LlmStructure(n) == [i \in 1..n |-> LlmSlide(i, n)]

JsonList(items) == [isList |-> TRUE, items |-> items]
JsonObject == [isList |-> FALSE, items |-> <<>>]

\* the JSON value a payload token stands for
PayloadValue(v, n) ==
    IF v = "valid" THEN JsonList(LlmStructure(n))
    ELSE IF v = "missingkey" THEN
        JsonList([i \in 1..n |->
            IF i = n THEN [LlmSlide(i, n) EXCEPT !.keys = RequiredKeys \ {"key_points"}]
            ELSE LlmSlide(i, n)])
    ELSE JsonObject

PayloadKinds == {"valid", "missingkey", "notlist"}

\* json.loads: white space around one document is accepted
JsonLoads(v, n) ==
    IF v.ty # "str" THEN Raise("TypeError", JsonObject)
    ELSE LET t == Strip(v.s)
         IN  IF Len(t) = 1 /\ t[1].t = "payload"
             THEN Ok(PayloadValue(t[1].v, n))
             ELSE Raise("JSONDecodeError", JsonObject)

\* ------------------------------------------------------------------------
\* StructureBot.create_slide_structure
\* ------------------------------------------------------------------------
\* the clean-up of the response, up to the final strip
ExtractJson(text) ==
    LET t0 == PyStr(Strip(text))
    IN  IF Truthy(FenceLiteral) THEN
            LET a == MethodSplit(t0, FenceJsonLiteral)
                b == IF a.exc # "" THEN a ELSE MethodSplit(a.val, FenceLiteral)
            IN  IF b.exc # "" THEN b ELSE MethodStrip(b.val)
        ELSE IF Contains(t0.s, FenceLiteral) THEN
            LET parts == Split(t0.s, FenceLiteral)
            IN  IF Len(parts) >= 3 THEN MethodStrip(PyStr(parts[2]))
                ELSE MethodStrip(PyStr(parts[Len(parts)]))
        ELSE MethodStrip(t0)

\* the two validation steps
ValidateStructure(j) ==
    IF ~j.isList THEN Raise("ValueError", <<>>)
    ELSE IF \E i \in 1..Len(j.items) : ~(RequiredKeys \subseteq j.items[i].keys)
         THEN Raise("ValueError", <<>>)
    ELSE Ok(j.items)

\* the try block: invoke, clean up, parse, validate
StructureTry(resp, n) ==
    IF resp.err THEN Raise("ServiceError", <<>>)
    ELSE LET x == ExtractJson(resp.text)
         IN  IF x.exc # "" THEN Raise(x.exc, <<>>)
             ELSE LET j == JsonLoads(x.val, n)
                  IN  IF j.exc # "" THEN Raise(j.exc, <<>>)
                      ELSE ValidateStructure(j.val)

FallbackDesignAlt(i) == IF i % 2 = 0 THEN "content" ELSE "image_focus"

\* design type of the interior fallback slide of 0-based index i
FallbackDesign(i) == IF i % 2 = 1 THEN "content" ELSE "image_focus"

FallbackSlideOffByOne(i, n) ==
    IF i = 0 THEN
        SlideDict(1, Title("intro", 0), "title",
                  <<"Overview", "Objectives", "Key Topics">>, RequiredKeys)
    ELSE IF i = n THEN
        SlideDict(i + 1, Title("conclusion", 0), "conclusion",
                  <<"Summary", "Key Takeaways", "Next Steps">>, RequiredKeys)
    ELSE
        SlideDict(i + 1, Title("part", i), FallbackDesign(i),
                  <<"Main concepts", "Examples", "Applications">>, RequiredKeys)

\* the fallback slide of 0-based index i
FallbackSlide(i, n) ==
    IF i = 0 THEN
        SlideDict(1, Title("intro", 0), "title",
                  <<"Overview", "Objectives", "Key Topics">>, RequiredKeys)
    ELSE IF i = n - 1 THEN
        SlideDict(i + 1, Title("conclusion", 0), "conclusion",
                  <<"Summary", "Key Takeaways", "Next Steps">>, RequiredKeys)
    ELSE
        SlideDict(i + 1, Title("part", i), FallbackDesign(i),
                  <<"Main concepts", "Examples", "Applications">>, RequiredKeys)

\* the loop over range(slides_count)
FallbackStructure(n) == [k \in 1..n |-> FallbackSlide(k - 1, n)]

StructureExceptCatchesNarrow(exc) == exc \in {"JSONDecodeError", "ValueError", "ServiceError"}

\* except Exception: every exception of the try block is an Exception
StructureExceptCatches(exc) == TRUE

\* the whole method: what the caller gets
CreateSlideStructure(resp, n) ==
    LET t == StructureTry(resp, n)
    IN  IF t.exc = "" THEN [raised |-> FALSE, fallback |-> FALSE, exc |-> "", val |-> t.val]
        ELSE IF StructureExceptCatches(t.exc)
             THEN [raised |-> FALSE, fallback |-> TRUE, exc |-> t.exc,
                   val |-> FallbackStructure(n)]
        ELSE [raised |-> TRUE, fallback |-> FALSE, exc |-> t.exc, val |-> <<>>]

\* ------------------------------------------------------------------------
\* Responses of the language model to the outline prompt
\* ------------------------------------------------------------------------
Contents == {<<TPayload(v)>> : v \in PayloadKinds} \cup {<<TJunk>>}

FencedJson(c) == <<TFence, TJson, TWs>> \o c \o <<TWs, TFence>>
Fenced(c) == <<TFence, TWs>> \o c \o <<TWs, TFence>>
Bare(c) == <<TWs>> \o c \o <<TWs>>

LlmError == [err |-> TRUE, text |-> <<>>]
LlmText(t) == [err |-> FALSE, text |-> t]

OutlineResponses ==
    {LlmError}
    \cup {LlmText(FencedJson(c)) : c \in Contents}
    \cup {LlmText(Fenced(c)) : c \in Contents}
    \cup {LlmText(Bare(c)) : c \in Contents}

\* the text between the first and the second fence marker
Interior(text) == Split(text, FenceLiteral)[2]

\* ------------------------------------------------------------------------
\* State
\* ------------------------------------------------------------------------
VARIABLES
    pc,             \* position of the caller in generate_presentation or in a direct call
    slides_count,   \* the slides_count argument
    client,         \* TRUE when the module-level image client was initialised
    outline_resp,   \* outcome of llm.invoke for the outline prompt
    structure_out,  \* what create_slide_structure handed to its caller
    slides_data,    \* the list of slide records
    cursor,         \* number of completed iterations of the current loop
    content_tmp,    \* the local variable content of the slide being written
    files,          \* static/images: the set of files, each with name and kind
    uid,            \* number of uuid4 values drawn
    prs,            \* the Presentation object: the slides added so far
    saved,          \* static/presentations: the set of saved documents
    ppt_out,        \* what create_powerpoint handed to its caller
    img_out,        \* what the last direct call of generate_image handed to its caller
    result,         \* what generate_presentation handed to its caller
    faults,         \* environment faults drawn so far in this run
    env,            \* the outcome the environment gave to each call, by slide
    calls           \* the calls and returns of the services, in the order they happened

vars == <<pc, slides_count, client, outline_resp, structure_out, slides_data, cursor,
          content_tmp, files, uid, prs, saved, ppt_out, img_out, result, faults, env,
          calls>>

NoResp == [err |-> FALSE, text |-> <<>>]
NoStructure == [raised |-> FALSE, fallback |-> FALSE, exc |-> "none", val |-> <<>>]

\* None and a relative reference to a file
NoneRef == [slide |-> 0, uid |-> 0]
Ref(k, u) == [slide |-> k, uid |-> u]

NoResult == [returned |-> FALSE, raised |-> FALSE, success |-> FALSE,
             slides_data |-> <<>>, ppt_path |-> NoneRef, error |-> ""]
NoOut == [returned |-> FALSE, raised |-> FALSE, ref |-> NoneRef, before |-> {},
          tried |-> FALSE]

NoPpt == [returned |-> FALSE, ref |-> NoneRef, why |-> "-"]

NoText == [src |-> "none", len |-> 0, cut |-> FALSE]

EnvInit(n) == [k \in 1..n |->
               [body |-> "-", prompt |-> "-", image |-> "-", save |-> "-", layout |-> "-"]]

\* everything but pc, slides_count and client, before the first step
Blank ==
    /\ outline_resp = NoResp
    /\ structure_out = NoStructure
    /\ slides_data = <<>>
    /\ cursor = 0
    /\ content_tmp = NoText
    /\ files = {}
    /\ uid = 0
    /\ prs = <<>>
    /\ saved = {}
    /\ ppt_out = NoPpt
    /\ img_out = NoOut
    /\ result = NoResult
    /\ faults = 0
    /\ env = EnvInit(slides_count)
    /\ calls = <<>>

\* ------------------------------------------------------------------------
\* PPTBot.generate_presentation: the except clause
\* ------------------------------------------------------------------------
FailureResult(e) ==
    [returned |-> TRUE, raised |-> FALSE, success |-> FALSE,
     slides_data |-> <<>>, ppt_path |-> NoneRef, error |-> e]

\* ------------------------------------------------------------------------
\* Calls of the external services
\* ------------------------------------------------------------------------
Event(svc, slide, ev) == [svc |-> svc, slide |-> slide, ev |-> ev]

CallEventsNoWait(svc, slide) == <<Event(svc, slide, "call")>>

\* a blocking call: the caller goes on only after the service has answered
CallEvents(svc, slide) == <<Event(svc, slide, "call"), Event(svc, slide, "return")>>

\* self.create_powerpoint(slides_data, topic) is entered
AssemblyStarts == <<Event("assemble", 0, "call")>>

\* where a loop over a list of len items starts
LoopEntry(len, inside, after) == IF len = 0 THEN after ELSE inside

\* ------------------------------------------------------------------------
\* Step 1: the structure
\* ------------------------------------------------------------------------
\* llm.invoke(prompt) of create_slide_structure
InvokeOutline(resps) ==
    /\ pc = "outline_call"
    /\ \E r \in resps : outline_resp' = r
    /\ calls' = calls \o CallEvents("outline", 0)
    /\ pc' = "outline_parse"
    /\ UNCHANGED <<slides_count, client, structure_out, slides_data, cursor, content_tmp,
                   files, uid, prs, saved, ppt_out, img_out, result, faults, env>>

\* the rest of create_slide_structure and the assignment to slide_structure
ReturnStructure ==
    /\ pc = "outline_parse"
    /\ LET out == CreateSlideStructure(outline_resp, slides_count)
       IN  /\ structure_out' = out
           /\ IF out.raised
              THEN /\ result' = FailureResult(out.exc)
                   /\ pc' = "done"
              ELSE /\ result' = result
                   /\ pc' = LoopEntry(Len(out.val), "body", "save")
    /\ UNCHANGED <<calls, slides_count, client, outline_resp, slides_data, cursor, content_tmp,
                   files, uid, prs, saved, ppt_out, img_out, faults, env>>

\* create_slide_structure called for every slides_count and every response
InitStructure ==
    /\ pc = "outline_call"
    /\ slides_count \in MinSlides..MaxCount
    /\ client = TRUE
    /\ Blank

NextStructure ==
    \/ InvokeOutline(OutlineResponses)
    \/ ReturnStructure

SpecStructure == InitStructure /\ [][NextStructure]_vars

\* ------------------------------------------------------------------------
\* Claims about create_slide_structure
\* ------------------------------------------------------------------------
StructureReturned == structure_out # NoStructure

\* C1: on its fallback path create_slide_structure returns exactly
\* slides_count specs: the first is a title slide, the last a conclusion
\* slide, interior element i is content when i is odd and image_focus when i
\* is even, and element i carries slide_number i + 1.
C1_FallbackShape ==
    (StructureReturned /\ structure_out.fallback) =>
        LET s == structure_out.val
            n == slides_count
        IN  /\ Len(s) = n
            /\ s[1].design_type = "title"
            /\ s[n].design_type = "conclusion"
            /\ \A i \in 1..(n - 2) :
                  s[i + 1].design_type = (IF i % 2 = 1 THEN "content" ELSE "image_focus")
            /\ \A i \in 0..(n - 1) : s[i + 1].slide_number = i + 1

C1_Witness ==
    /\ StructureReturned
    /\ structure_out.fallback
    /\ slides_count = MaxCount
    /\ structure_out.val[3].design_type = "image_focus"

FencedValid(resp) ==
    /\ ~resp.err
    /\ Len(Split(resp.text, FenceLiteral)) = 3
    /\ \E c \in {<<TPayload("valid")>>} :
          Strip(Interior(resp.text)) \in {c, <<TJson, TWs>> \o c}

\* C2: a response of two fence markers around a valid JSON list of complete
\* slide descriptors is returned as that list, not as the fallback outline.
C2_FencedJsonReturned ==
    (StructureReturned /\ FencedValid(outline_resp)) =>
        /\ ~structure_out.raised
        /\ ~structure_out.fallback
        /\ structure_out.val = LlmStructure(slides_count)

\* C3: create_slide_structure never raises, and after a call error, invalid
\* JSON without fences, JSON that is not a list or an element without a
\* required key it returns the fallback list of slides_count specs.
OutlineFailure(resp) ==
    \/ resp.err
    \/ resp.text = Bare(<<TJunk>>)
    \/ \E w \in {"bare", "fenced", "fencedjson"} : \E v \in {"notlist", "missingkey"} :
          resp.text = (IF w = "bare" THEN Bare(<<TPayload(v)>>)
                       ELSE IF w = "fenced" THEN Fenced(<<TPayload(v)>>)
                       ELSE FencedJson(<<TPayload(v)>>))

C3_StructureNeverRaises ==
    StructureReturned =>
        /\ ~structure_out.raised
        /\ OutlineFailure(outline_resp) =>
              /\ structure_out.fallback
              /\ structure_out.val = FallbackStructure(slides_count)
              /\ Len(structure_out.val) = slides_count

C3_Witness ==
    /\ StructureReturned
    /\ outline_resp = LlmText(Bare(<<TJunk>>))
    /\ structure_out.fallback
    /\ ~structure_out.raised

\* ------------------------------------------------------------------------
\* Generated text
\* ------------------------------------------------------------------------
Topic == "Renewable Energy"

\* truncation limits of the subtitle and of the caption
SubtitleChars == 100
CaptionChars == 150

Text(src, len) == [src |-> src, len |-> len, cut |-> FALSE]

Digits(n) == IF n < 10 THEN 1 ELSE 2

\* len(slide_info['title'])
TitleLen(t) ==
    IF t.kind = "intro" THEN Len("Introduction to ") + Len(Topic)
    ELSE IF t.kind = "conclusion" THEN Len("Conclusion")
    ELSE IF t.kind = "part" THEN Len(Topic) + Len(" - Part ") + Digits(t.n)
    ELSE Len("Slide Title")

\* len(', '.join(key_points))
RECURSIVE JoinLen(_)
JoinLen(points) ==
    IF points = <<>> THEN 0
    ELSE IF Len(points) = 1 THEN Len(points[1])
    ELSE Len(points[1]) + Len(", ") + JoinLen(Tail(points))

\* what the model writes: two or three paragraphs, longer than both limits
LlmBody == Text("llm", 2 * SubtitleChars + CaptionChars)
LlmPrompt == Text("llm", SubtitleChars + CaptionChars)

\* ------------------------------------------------------------------------
\* ContentBot
\* ------------------------------------------------------------------------
FallbackBody(slide_info) ==
    Text("fallback",
         Len("Content about ") + TitleLen(slide_info.title) + Len(" related to ")
         + Len(Topic) + Len(". This slide covers ") + JoinLen(slide_info.key_points)
         + Len("."))

FallbackPrompt ==
    Text("fallback",
         Len("Professional illustration about ") + Len(Topic)
         + Len(", modern design, high quality, business presentation style"))

ContentExceptCatchesNone(exc) == FALSE

\* except Exception of the two ContentBot methods
ContentExceptCatches(exc) == TRUE

\* the prompt is formatted before the try block: a missing key raises
GenerateSlideContent(slide_info, out) ==
    IF ~({"title", "design_type", "key_points"} \subseteq slide_info.keys)
    THEN Raise("KeyError", NoText)
    ELSE IF out = "ok" THEN Ok(LlmBody)
    ELSE IF ContentExceptCatches("ServiceError") THEN Ok(FallbackBody(slide_info))
    ELSE Raise("ServiceError", NoText)

GenerateImagePrompt(slide_info, out) ==
    IF ~({"title", "design_type"} \subseteq slide_info.keys)
    THEN Raise("KeyError", NoText)
    ELSE IF out = "ok" THEN Ok(LlmPrompt)
    ELSE IF ContentExceptCatches("ServiceError") THEN Ok(FallbackPrompt)
    ELSE Raise("ServiceError", NoText)

TextOutcomes == {"ok", "error"}

\* ------------------------------------------------------------------------
\* Step 2 of generate_presentation: one record per slide spec
\* ------------------------------------------------------------------------
SlideRecordZeroBased(i, slide_info, content, image_prompt) ==
    [slide_number |-> i - 1, title |-> slide_info.title,
     design_type |-> slide_info.design_type, content |-> content,
     image_prompt |-> image_prompt, image_path |-> NoneRef]

\* slides_data.append({...}) with 'slide_number': i + 1
SlideRecord(i, slide_info, content, image_prompt) ==
    [slide_number |-> i, title |-> slide_info.title,
     design_type |-> slide_info.design_type, content |-> content,
     image_prompt |-> image_prompt, image_path |-> NoneRef]

\* Step 3, Step 4 and the end of create_powerpoint's loop
AfterContent(len) == LoopEntry(len, "images", "save")

\* content = generate_slide_content(slide_info, topic)
WriteBody(outs, limit) ==
    /\ pc = "body"
    /\ \E o \in outs :
          /\ o = "error" => faults < limit
          /\ faults' = IF o = "error" THEN faults + 1 ELSE faults
          /\ env' = [env EXCEPT ![cursor + 1].body = o]
          /\ calls' = calls \o CallEvents("body", cursor + 1)
          /\ LET r == GenerateSlideContent(structure_out.val[cursor + 1], o)
             IN  IF r.exc # ""
                 THEN /\ result' = FailureResult(r.exc)
                      /\ pc' = "done"
                      /\ content_tmp' = content_tmp
                 ELSE /\ result' = result
                      /\ pc' = "prompt"
                      /\ content_tmp' = r.val
    /\ UNCHANGED <<slides_count, client, outline_resp, structure_out, slides_data, cursor,
                   files, uid, prs, saved, ppt_out, img_out>>

\* image_prompt = generate_image_prompt(slide_info, topic) and the append
WritePrompt(outs, limit) ==
    /\ pc = "prompt"
    /\ \E o \in outs :
          /\ o = "error" => faults < limit
          /\ faults' = IF o = "error" THEN faults + 1 ELSE faults
          /\ env' = [env EXCEPT ![cursor + 1].prompt = o]
          /\ calls' = calls \o CallEvents("prompt", cursor + 1)
          /\ LET i == cursor
                 slide_info == structure_out.val[i + 1]
                 r == GenerateImagePrompt(slide_info, o)
             IN  IF r.exc # ""
                 THEN /\ result' = FailureResult(r.exc)
                      /\ pc' = "done"
                      /\ UNCHANGED <<slides_data, cursor, content_tmp>>
                 ELSE /\ result' = result
                      /\ slides_data' = Append(slides_data,
                             SlideRecord(i + 1, slide_info, content_tmp, r.val))
                      /\ content_tmp' = NoText
                      /\ IF i + 1 = Len(structure_out.val)
                         THEN /\ cursor' = 0
                              /\ pc' = AfterContent(i + 1)
                         ELSE /\ cursor' = i + 1
                              /\ pc' = "body"
    /\ UNCHANGED <<slides_count, client, outline_resp, structure_out,
                   files, uid, prs, saved, ppt_out, img_out>>

\* ------------------------------------------------------------------------
\* PPTBot.generate_image
\* ------------------------------------------------------------------------
File(name, kind) == [name |-> name, kind |-> kind]

\* os.path.exists
Exists(name, fs) == \E f \in fs : f.name = name

\* what the service hands back: an exception, nothing, or an image object
\* whose save writes a valid image, no bytes at all, or bytes that are no image
ServiceOutcomes == {"error", "none", "image", "zero", "corrupt"}

\* image.save: completes, raises before or after creating the file, or
\* completes without a file
SaveOutcomes == {"ok", "raise_clean", "raise_partial", "missing"}

WrittenKind(svc) == IF svc = "image" THEN "valid" ELSE svc

ImageExceptCatchesNarrow(exc) == exc = "OSError"

\* except Exception of generate_image
ImageExceptCatches(exc) == TRUE

ImageReturn(ref, fs, u) == [raised |-> FALSE, ref |-> ref, files |-> fs, uid |-> u]
ImageRaise(exc, fs, u) ==
    IF ImageExceptCatches(exc) THEN ImageReturn(NoneRef, fs, u)
    ELSE [raised |-> TRUE, ref |-> NoneRef, files |-> fs, uid |-> u]

\* generate_image(prompt, slide_number) with u uuids drawn and the files fs
GenerateImage(cl, svc, save, k, u, fs) ==
    LET name == Ref(k, u + 1)
    IN  IF ~cl THEN ImageReturn(NoneRef, fs, u)
        ELSE IF svc = "error" THEN ImageRaise("ServiceError", fs, u)
        ELSE IF svc = "none" THEN ImageReturn(NoneRef, fs, u)
        ELSE IF save = "raise_clean" THEN ImageRaise("OSError", fs, u + 1)
        ELSE IF save = "raise_partial"
             THEN ImageRaise("OSError", fs \cup {File(name, "corrupt")}, u + 1)
        ELSE LET fs2 == IF save = "ok" THEN fs \cup {File(name, WrittenKind(svc))} ELSE fs
             IN  IF Exists(name, fs2) THEN ImageReturn(name, fs2, u + 1)
                 ELSE ImageReturn(NoneRef, fs2, u + 1)

\* the pairs of outcomes one call can meet
ImageCalls(svcs, saves) ==
    {<<v, "-">> : v \in svcs \cap {"error", "none"}}
    \cup ((svcs \ {"error", "none"}) \X saves)

NominalImage(c) == c = <<"image", "ok">>

\* ------------------------------------------------------------------------
\* Step 3 of generate_presentation: one image per record
\* ------------------------------------------------------------------------
AfterImages(len) == LoopEntry(len, "slide", "save")

\* one iteration of the loop over slides_data
AcquireImage(svcs, saves, limit) ==
    /\ pc = "images"
    /\ LET k == cursor + 1
       IN  /\ IF client
              THEN \E c \in ImageCalls(svcs, saves) :
                      /\ ~NominalImage(c) => faults < limit
                      /\ faults' = IF NominalImage(c) THEN faults ELSE faults + 1
                      /\ env' = [env EXCEPT ![k].image = c[1], ![k].save = c[2]]
                      /\ calls' = calls \o CallEvents("image", slides_data[k].slide_number)
                      /\ LET r == GenerateImage(client, c[1], c[2],
                                                slides_data[k].slide_number, uid, files)
                         IN  /\ files' = r.files
                             /\ uid' = r.uid
                             /\ IF r.raised
                                THEN /\ result' = FailureResult("ServiceError")
                                     /\ pc' = "done"
                                     /\ UNCHANGED <<slides_data, cursor>>
                                ELSE /\ result' = result
                                     /\ slides_data' =
                                            [slides_data EXCEPT ![k].image_path = r.ref]
                                     /\ cursor' = IF k = Len(slides_data) THEN 0 ELSE k
                                     /\ pc' = IF k = Len(slides_data)
                                              THEN AfterImages(k) ELSE "images"
              ELSE /\ cursor' = IF k = Len(slides_data) THEN 0 ELSE k
                   /\ pc' = IF k = Len(slides_data) THEN AfterImages(k) ELSE "images"
                   /\ UNCHANGED <<slides_data, files, uid, result, faults, env, calls>>
    /\ UNCHANGED <<slides_count, client, outline_resp, structure_out, content_tmp,
                   prs, saved, ppt_out, img_out>>

\* ------------------------------------------------------------------------
\* generate_image called directly, MaxCalls times, for slides 1, 2, ...
\* ------------------------------------------------------------------------
ImageOut(r, before, u) ==
    [returned |-> TRUE, raised |-> r.raised, ref |-> r.ref, before |-> before,
     tried |-> r.uid # u]

CallGenerateImage ==
    /\ pc = "image_call"
    /\ cursor < MaxCalls
    /\ \E c \in IF client THEN ImageCalls(ServiceOutcomes, SaveOutcomes) ELSE {<<"-", "-">>} :
          LET k == cursor + 1
              r == GenerateImage(client, c[1], c[2], k, uid, files)
          IN  /\ env' = [env EXCEPT ![k].image = c[1], ![k].save = c[2]]
              /\ files' = r.files
              /\ uid' = r.uid
              /\ img_out' = ImageOut(r, files, uid)
              /\ calls' = IF client THEN calls \o CallEvents("image", k) ELSE calls
              /\ cursor' = k
    /\ UNCHANGED <<pc, slides_count, client, outline_resp, structure_out, slides_data,
                   content_tmp, prs, saved, ppt_out, result, faults>>

InitImage ==
    /\ pc = "image_call"
    /\ slides_count = MaxCalls
    /\ client \in BOOLEAN
    /\ outline_resp = NoResp
    /\ structure_out = NoStructure
    /\ slides_data = <<>>
    /\ cursor = 0
    /\ content_tmp = NoText
    /\ files = {}
    /\ uid = 0
    /\ prs = <<>>
    /\ saved = {}
    /\ ppt_out = NoPpt
    /\ img_out = NoOut
    /\ result = NoResult
    /\ faults = 0
    /\ env = EnvInit(MaxCalls)
    /\ calls = <<>>

NextImage == CallGenerateImage

SpecImage == InitImage /\ [][NextImage]_vars

\* ------------------------------------------------------------------------
\* Claims about generate_image
\* ------------------------------------------------------------------------
\* the file a reference names is there, is not empty and is an image
ValidImageRef(ref, fs) == \E f \in fs : f.name = ref /\ f.kind = "valid"

\* the outcome the environment gave to the last direct call
LastCall == env[cursor]

\* C4: a non-empty reference returned by generate_image names a file that
\* exists, is not empty and is a valid image; after a zero-byte or corrupt
\* payload the call has tried to write the file and returns empty.
C4_ReturnedImageValid ==
    (pc = "image_call" /\ img_out.returned) =>
        /\ img_out.ref # NoneRef => ValidImageRef(img_out.ref, files)
        /\ (client /\ LastCall.image \in {"zero", "corrupt"}) =>
              /\ img_out.tried
              /\ img_out.ref = NoneRef

\* C5: generate_image never raises, and without a client or without an
\* image from the service it returns empty and creates no file.
C5_NoImageNoFile ==
    (pc = "image_call" /\ img_out.returned) =>
        /\ ~img_out.raised
        /\ (~client \/ LastCall.image = "none") =>
              /\ img_out.ref = NoneRef
              /\ files = img_out.before

C5_Witness ==
    /\ pc = "image_call"
    /\ img_out.returned
    /\ client
    /\ LastCall.image = "none"
    /\ cursor = 2
    /\ env[1].image = "image"
    /\ files # {}
    /\ img_out.ref = NoneRef

C5_WitnessNoClient ==
    /\ pc = "image_call"
    /\ img_out.returned
    /\ ~client
    /\ files = {}

\* ------------------------------------------------------------------------
\* Slides and shapes
\* ------------------------------------------------------------------------
NoTitle == Title("none", 0)

Shape(kind, title, text, fmt, img) ==
    [kind |-> kind, title |-> title, text |-> text, fmt |-> fmt, img |-> img]

\* the title text box of lines 172-183
TitleShape(rec) == Shape("title", rec.title, Text("title", TitleLen(rec.title)), TRUE, NoneRef)

\* text[:limit] + "..." if len(text) > limit else text
Truncate(text, limit) ==
    IF text.len > limit THEN [text EXCEPT !.len = limit + Len("..."), !.cut = TRUE]
    ELSE text

\* PPTBot.add_image_to_slide: TRUE when the picture is added
CanAddImage(image_path, fs) ==
    /\ image_path # NoneRef
    /\ \E f \in fs : f.name = image_path /\ f.kind # "zero" /\ f.kind # "corrupt"

\* the statements of a layout routine that change the slide
Op(op, kind, text) == [op |-> op, kind |-> kind, text |-> text]
OpBox(kind) == Op("box", kind, NoText)
OpText(text) == Op("text", "", text)
OpFormat == Op("format", "", NoText)
OpImage == Op("image", "", NoText)
OpAccent == Op("accent", "", NoText)

\* add_title_slide_content
TitleOps(rec) ==
    <<OpBox("subtitle"), OpText(Truncate(rec.content, SubtitleChars)), OpFormat, OpImage>>

\* add_content_slide
ContentOps(rec) == <<OpBox("content"), OpText(rec.content), OpFormat, OpImage>>

\* add_image_focus_slide
ImageFocusOps(rec) ==
    <<OpImage, OpBox("caption"), OpText(Truncate(rec.content, CaptionChars)), OpFormat>>

\* add_conclusion_slide
ConclusionOps(rec) ==
    <<OpBox("content"), OpText(rec.content), OpFormat, OpImage, OpAccent>>

\* add_default_slide
DefaultOps(rec) == ContentOps(rec)

\* the dispatch on design_type
LayoutOps(rec) ==
    IF rec.design_type = "title" THEN TitleOps(rec)
    ELSE IF rec.design_type = "content" THEN ContentOps(rec)
    ELSE IF rec.design_type = "image_focus" THEN ImageFocusOps(rec)
    ELSE IF rec.design_type = "conclusion" THEN ConclusionOps(rec)
    ELSE DefaultOps(rec)

\* one statement applied to the shapes of a slide
ApplyOp(shapes, op, rec, fs) ==
    IF op.op = "box" THEN Append(shapes, Shape(op.kind, NoTitle, NoText, FALSE, NoneRef))
    ELSE IF op.op = "text" THEN [shapes EXCEPT ![Len(shapes)].text = op.text]
    ELSE IF op.op = "format" THEN [shapes EXCEPT ![Len(shapes)].fmt = TRUE]
    ELSE IF op.op = "image" THEN
        IF CanAddImage(rec.image_path, fs)
        THEN Append(shapes, Shape("picture", NoTitle, NoText, FALSE, rec.image_path))
        ELSE shapes
    ELSE Append(shapes, Shape("accent", NoTitle, NoText, TRUE, NoneRef))

RECURSIVE ApplyOps(_, _, _, _)
ApplyOps(shapes, ops, rec, fs) ==
    IF ops = <<>> THEN shapes
    ELSE ApplyOps(ApplyOp(shapes, Head(ops), rec, fs), Tail(ops), rec, fs)

\* outcome 0: no statement raises; outcome j: statement j raises.
\* add_image_to_slide catches everything, so an image statement never raises.
LayoutOutcomes(rec) ==
    {0} \cup {j \in 1..Len(LayoutOps(rec)) : LayoutOps(rec)[j].op # "image"}

\* the try/except around the decorative shape of add_conclusion_slide
Swallowed(rec, j) == j # 0 /\ LayoutOps(rec)[j].op = "accent"

\* the layout routine raised to create_powerpoint
LayoutRaised(rec, j) == j # 0 /\ ~Swallowed(rec, j)

\* the slide one iteration of create_powerpoint's loop leaves in the document
RenderSlide(rec, j, fs) ==
    LET ops == LayoutOps(rec)
        done == IF j = 0 THEN ops
                ELSE IF Swallowed(rec, j)
                     THEN SubSeq(ops, 1, j - 1) \o SubSeq(ops, j + 1, Len(ops))
                ELSE SubSeq(ops, 1, j - 1)
    IN  ApplyOps(<<TitleShape(rec)>>, done, rec, fs)

\* ------------------------------------------------------------------------
\* PPTBot.create_powerpoint
\* ------------------------------------------------------------------------
PptOut(ref, why) == [returned |-> TRUE, ref |-> ref, why |-> why]

InnerExceptCatchesNone(exc) == FALSE

\* except Exception as slide_error ... continue
InnerExceptCatches(exc) == TRUE

LayoutLog(rec, j) ==
    IF j = 0 THEN "ok" ELSE IF Swallowed(rec, j) THEN "swallowed" ELSE "raised"

\* one iteration of the loop: blank slide, title, layout routine.
\* setup is the outcome of the statements before the inner try.
AddSlide(setups, limit) ==
    /\ pc = "slide"
    /\ calls' = IF cursor = 0 THEN calls \o AssemblyStarts ELSE calls
    /\ LET k == cursor + 1
           rec == slides_data[k]
       IN  \E setup \in setups : \E j \in LayoutOutcomes(rec) :
              /\ (setup = "raise" => j = 0)
              /\ (setup = "raise" \/ j # 0) => faults < limit
              /\ faults' = IF setup = "raise" \/ j # 0 THEN faults + 1 ELSE faults
              /\ IF setup = "raise"
                 THEN /\ env' = [env EXCEPT ![k].layout = "setup_raised"]
                      /\ ppt_out' = PptOut(NoneRef, "setup")
                      /\ pc' = "ppt_return"
                      /\ UNCHANGED <<prs, cursor>>
                 ELSE /\ env' = [env EXCEPT ![k].layout = LayoutLog(rec, j)]
                      /\ prs' = Append(prs, RenderSlide(rec, j, files))
                      /\ IF LayoutRaised(rec, j) /\ ~InnerExceptCatches("Exception")
                         THEN /\ ppt_out' = PptOut(NoneRef, "layout")
                              /\ pc' = "ppt_return"
                              /\ cursor' = cursor
                         ELSE /\ ppt_out' = ppt_out
                              /\ cursor' = IF k = Len(slides_data) THEN 0 ELSE k
                              /\ pc' = IF k = Len(slides_data) THEN "save" ELSE "slide"
    /\ UNCHANGED <<slides_count, client, outline_resp, structure_out, slides_data,
                   content_tmp, files, uid, saved, img_out, result>>

DocOutcomes == {"ok", "raise", "missing"}

Doc(name, slides) == [name |-> name, slides |-> slides]

\* prs.save, the check that the file exists, and the return
SavePresentation(outs, limit) ==
    /\ pc = "save"
    /\ calls' = IF slides_data = <<>> THEN calls \o AssemblyStarts ELSE calls
    /\ \E o \in outs :
          /\ o # "ok" => faults < limit
          /\ faults' = IF o = "ok" THEN faults ELSE faults + 1
          /\ uid' = uid + 1
          /\ LET name == Ref(0, uid + 1)
                 docs == IF o = "ok" THEN saved \cup {Doc(name, prs)} ELSE saved
             IN  /\ saved' = docs
                 /\ ppt_out' = IF o = "raise" THEN PptOut(NoneRef, o)
                                ELSE IF \E d \in docs : d.name = name THEN PptOut(name, o)
                                ELSE PptOut(NoneRef, o)
    /\ pc' = "ppt_return"
    /\ UNCHANGED <<slides_count, client, outline_resp, structure_out, slides_data, cursor,
                   content_tmp, files, prs, img_out, result, env>>

\* ------------------------------------------------------------------------
\* create_powerpoint called directly on a list of slide records
\* ------------------------------------------------------------------------
\* longest list of the direct calls
MaxDeck == 2

DesignTypes == {"title", "content", "image_focus", "conclusion", "agenda"}

\* the image files on disk before the call: a valid one and an empty one per slide
DeckFiles == {File(Ref(k, 1), "valid") : k \in 1..MaxDeck}
             \cup {File(Ref(k, 2), "zero") : k \in 1..MaxDeck}

DeckRecord(k, design, u) ==
    [slide_number |-> k, title |-> Title("part", k), design_type |-> design,
     content |-> LlmBody, image_prompt |-> LlmPrompt,
     image_path |-> IF u = 0 THEN NoneRef ELSE Ref(k, u)]

Decks ==
    UNION {{[k \in 1..n |-> DeckRecord(k, d[k], u[k])] :
               d \in [1..n -> DesignTypes], u \in [1..n -> 0..2]} : n \in 1..MaxDeck}

InitPpt ==
    /\ pc = "slide"
    /\ slides_data \in Decks
    /\ slides_count = Len(slides_data)
    /\ client = TRUE
    /\ outline_resp = NoResp
    /\ structure_out = NoStructure
    /\ cursor = 0
    /\ content_tmp = NoText
    /\ files = DeckFiles
    /\ uid = 2
    /\ prs = <<>>
    /\ saved = {}
    /\ ppt_out = NoPpt
    /\ img_out = NoOut
    /\ result = NoResult
    /\ faults = 0
    /\ env = EnvInit(slides_count)
    /\ calls = <<>>

NextPpt ==
    \/ AddSlide({"ok", "raise"}, MaxFaults)
    \/ SavePresentation(DocOutcomes, MaxFaults)

SpecPpt == InitPpt /\ [][NextPpt]_vars

\* ------------------------------------------------------------------------
\* PPTBot.generate_presentation: the return and the except clause
\* ------------------------------------------------------------------------
SuccessResult(data, ref) ==
    [returned |-> TRUE, raised |-> FALSE, success |-> TRUE,
     slides_data |-> data, ppt_path |-> ref, error |-> ""]

\* ppt_path = self.create_powerpoint(...) and the return of the result
ReturnResult ==
    /\ pc = "ppt_return"
    /\ result' = SuccessResult(slides_data, ppt_out.ref)
    /\ pc' = "done"
    /\ UNCHANGED <<calls, slides_count, client, outline_resp, structure_out, slides_data, cursor,
                   content_tmp, files, uid, prs, saved, ppt_out, img_out, faults, env>>

PipelineExceptCatchesNone(exc) == FALSE

\* except Exception of generate_presentation
PipelineExceptCatches(exc) == TRUE

\* a statement of generate_presentation itself raises an exception no stage
\* foresees
StageFault(limit) ==
    /\ pc \in {"outline_call", "body", "prompt", "images", "ppt_return"}
    /\ faults < limit
    /\ faults' = faults + 1
    /\ result' = IF PipelineExceptCatches("Exception") THEN FailureResult("unexpected")
                 ELSE [NoResult EXCEPT !.raised = TRUE]
    /\ pc' = "done"
    /\ UNCHANGED <<calls, slides_count, client, outline_resp, structure_out, slides_data, cursor,
                   content_tmp, files, uid, prs, saved, ppt_out, img_out, env>>

\* ------------------------------------------------------------------------
\* generate_presentation
\* ------------------------------------------------------------------------
PipelineResponses ==
    {LlmError, LlmText(FencedJson(<<TPayload("valid")>>)), LlmText(Bare(<<TJunk>>))}

Init ==
    /\ pc = "outline_call"
    /\ slides_count \in MinSlides..MaxSlides
    /\ client \in BOOLEAN
    /\ Blank

Next ==
    \/ InvokeOutline(PipelineResponses)
    \/ ReturnStructure
    \/ WriteBody(TextOutcomes, MaxFaults)
    \/ WritePrompt(TextOutcomes, MaxFaults)
    \/ AcquireImage(ServiceOutcomes, SaveOutcomes, MaxFaults)
    \/ AddSlide({"ok", "raise"}, MaxFaults)
    \/ SavePresentation(DocOutcomes, MaxFaults)
    \/ ReturnResult
    \/ StageFault(MaxFaults)

Spec == Init /\ [][Next]_vars

\* every call of the language model and of the image service fails, and
\* nothing else does
Unlimited == 4 * (MaxSlides + 1)

NextAllFail ==
    \/ InvokeOutline({LlmError})
    \/ ReturnStructure
    \/ WriteBody({"error"}, Unlimited)
    \/ WritePrompt({"error"}, Unlimited)
    \/ AcquireImage({"error", "none"}, {}, Unlimited)
    \/ AddSlide({"ok"}, 0)
    \/ SavePresentation(DocOutcomes, Unlimited)
    \/ ReturnResult

SpecAllFail == Init /\ [][NextAllFail]_vars

\* ------------------------------------------------------------------------
\* Claims about create_powerpoint
\* ------------------------------------------------------------------------
Kinds(slide) == [i \in 1..Len(slide) |-> slide[i].kind]

IsPrefix(a, b) == Len(a) <= Len(b) /\ SubSeq(b, 1, Len(a)) = a

\* the picture of a record is usable: the file is there, not empty, an image
Usable(rec, fs) == rec.image_path # NoneRef /\ ValidImageRef(rec.image_path, fs)

Picture(rec, fs) == IF Usable(rec, fs) THEN <<"picture">> ELSE <<>>

\* the elements of a fully rendered slide, by layout kind
ExpectedKinds(rec, fs) ==
    IF rec.design_type = "title" THEN <<"title", "subtitle">> \o Picture(rec, fs)
    ELSE IF rec.design_type = "image_focus"
         THEN <<"title">> \o Picture(rec, fs) \o <<"caption">>
    ELSE IF rec.design_type = "conclusion"
         THEN <<"title", "content">> \o Picture(rec, fs) \o <<"accent">>
    ELSE <<"title", "content">> \o Picture(rec, fs)

TextBoxes == {"title", "subtitle", "content", "caption"}

\* every element is there, every text box has its text and its format
FullyRendered(slide, rec, fs) ==
    /\ Kinds(slide) = ExpectedKinds(rec, fs)
    /\ slide[1].title = rec.title
    /\ \A i \in 1..Len(slide) :
          slide[i].kind \in TextBoxes => slide[i].text # NoText /\ slide[i].fmt

TitleOnly(slide, rec) == Kinds(slide) = <<"title">> /\ slide[1].title = rec.title

\* the title, then only elements the layout routine adds, in its order, and
\* something of the full rendering is missing
PartlyRendered(slide, rec, fs) ==
    /\ Len(slide) >= 1
    /\ slide[1].kind = "title"
    /\ slide[1].title = rec.title
    /\ IsPrefix(Kinds(slide), ExpectedKinds(rec, fs))
    /\ ~FullyRendered(slide, rec, fs)

FailedSlides == {k \in 1..Len(slides_data) : env[k].layout = "raised"}

\* create_powerpoint has returned; the layout routine of exactly one slide
\* raised and nothing else went wrong
OneLayoutRaised ==
    /\ pc = "ppt_return"
    /\ ppt_out.returned
    /\ Cardinality(FailedSlides) = 1
    /\ \A k \in 1..Len(slides_data) : env[k].layout \in {"ok", "raised"}
    /\ ppt_out.why \notin {"setup", "raise", "missing"}

\* the document ppt_out names, with one slide per record
SavedDocument(d) ==
    /\ d \in saved
    /\ d.name = ppt_out.ref
    /\ Len(d.slides) = Len(slides_data)

\* C6 as stated: after the layout routine of one slide raised, the document
\* is saved and referenced, has one slide per record in input order, the
\* other slides fully rendered and the failed slide with its title only.
C6_FailedSlideTitleOnly ==
    OneLayoutRaised =>
        /\ ppt_out.ref # NoneRef
        /\ \E d \in saved :
              /\ SavedDocument(d)
              /\ \A k \in 1..Len(slides_data) :
                    IF k \in FailedSlides
                    THEN TitleOnly(d.slides[k], slides_data[k])
                    ELSE FullyRendered(d.slides[k], slides_data[k], files)

\* C6 amended: after the layout routine of one slide raised, the document is
\* saved and referenced, has one slide per record in input order, the other
\* slides fully rendered and the failed slide with its title followed by the
\* elements its layout routine had added before it raised.
C6_FailedSlideKept ==
    OneLayoutRaised =>
        /\ ppt_out.ref # NoneRef
        /\ \E d \in saved :
              /\ SavedDocument(d)
              /\ \A k \in 1..Len(slides_data) :
                    IF k \in FailedSlides
                    THEN PartlyRendered(d.slides[k], slides_data[k], files)
                    ELSE FullyRendered(d.slides[k], slides_data[k], files)

C6_Witness ==
    /\ OneLayoutRaised
    /\ Len(slides_data) = 2
    /\ FailedSlides = {1}
    /\ slides_data[1].design_type = "image_focus"
    /\ \E d \in saved :
          /\ SavedDocument(d)
          /\ Kinds(d.slides[1]) = <<"title", "picture", "caption">>
          /\ Kinds(d.slides[2]) = <<"title", "content", "picture", "accent">>

\* ------------------------------------------------------------------------
\* Claims about generate_presentation
\* ------------------------------------------------------------------------
Returned == pc = "done" /\ result.returned

\* C7: a successful result carries a non-empty ppt_path.
C7_SuccessHasDocument ==
    (Returned /\ result.success) => result.ppt_path # NoneRef

DocumentStageFailed == ppt_out.why \in {"setup", "raise", "missing"}

AllServicesFailed ==
    /\ outline_resp.err
    /\ \A k \in 1..slides_count :
          /\ env[k].body = "error"
          /\ env[k].prompt = "error"
          /\ client => env[k].image \in {"error", "none"}

\* C8: with slides_count = 3 and every call of the outline model, the body
\* model, the image-prompt model and the image service failing, the result
\* is successful, has 3 records of design types title, content or
\* image_focus, conclusion, no image_path, and a saved document.
C8_AllServicesFail ==
    (pc = "done" /\ slides_count = MinSlides /\ AllServicesFailed /\ ~DocumentStageFailed) =>
        /\ result.returned
        /\ result.success
        /\ Len(result.slides_data) = MinSlides
        /\ result.slides_data[1].design_type = "title"
        /\ result.slides_data[2].design_type \in {"content", "image_focus"}
        /\ result.slides_data[3].design_type = "conclusion"
        /\ \A k \in 1..MinSlides : result.slides_data[k].image_path = NoneRef
        /\ result.ppt_path # NoneRef
        /\ \E d \in saved : d.name = result.ppt_path /\ Len(d.slides) = MinSlides

C8_Witness ==
    /\ pc = "done"
    /\ slides_count = MinSlides
    /\ client
    /\ AllServicesFailed
    /\ result.success
    /\ result.ppt_path # NoneRef
    /\ result.slides_data[2].content.src = "fallback"

\* slides_count of the second end-to-end scenario: the default of
\* generate_presentation
ScenarioSlides == 5

ImageFailed(k) == env[k].image \in {"error", "none"}
ImageDelivered(k) == env[k].image = "image" /\ env[k].save = "ok"

\* the second scenario: the outline is well-formed, every text call succeeds,
\* the image service fails for slide f only, nothing else goes wrong
OneImageFails(f) ==
    /\ pc = "done"
    /\ slides_count = ScenarioSlides
    /\ client
    /\ outline_resp = LlmText(FencedJson(<<TPayload("valid")>>))
    /\ \A k \in 1..slides_count : env[k].body = "ok" /\ env[k].prompt = "ok"
    /\ ImageFailed(f)
    /\ \A k \in (1..slides_count) \ {f} : ImageDelivered(k)
    /\ faults = 1

\* C9: in that scenario the result has 5 records, the record of slide f has
\* no image_path, every other record has the reference of its own image
\* file, and the document is saved.
C9_OneImageFails ==
    \A f \in 1..ScenarioSlides :
        OneImageFails(f) =>
            /\ result.returned
            /\ result.success
            /\ Len(result.slides_data) = ScenarioSlides
            /\ result.slides_data[f].image_path = NoneRef
            /\ \A k \in (1..ScenarioSlides) \ {f} :
                  /\ result.slides_data[k].image_path # NoneRef
                  /\ result.slides_data[k].image_path.slide = k
                  /\ Exists(result.slides_data[k].image_path, files)
            /\ result.ppt_path # NoneRef
            /\ \E d \in saved : d.name = result.ppt_path /\ Len(d.slides) = ScenarioSlides

C9_Witness ==
    /\ OneImageFails(3)
    /\ result.success
    /\ result.slides_data[3].image_path = NoneRef
    /\ result.slides_data[4].image_path # NoneRef

\* C10: generate_presentation never raises; it returns an unsuccessful
\* result, with an error message, exactly when an exception no stage
\* recovers from reaches its except clause; a failed outline, a failed text
\* call or a missing image never do.
C10_FailureOnlyWhenUnexpected ==
    /\ ~result.raised
    /\ pc = "done" =>
          /\ result.returned
          /\ ~result.success => result.error = "unexpected"

C10_Witness ==
    /\ pc = "done"
    /\ result.returned
    /\ ~result.success
    /\ result.error = "unexpected"
    /\ outline_resp.err
    /\ structure_out.fallback
    /\ env[1].body = "ok"
    /\ Len(slides_data) = 1

\* ------------------------------------------------------------------------
\* Claims about the order of the calls
\* ------------------------------------------------------------------------
\* the stage an event belongs to
Stage(e) ==
    IF e.svc = "outline" THEN 1
    ELSE IF e.svc \in {"body", "prompt"} THEN 2
    ELSE IF e.svc = "image" THEN 3
    ELSE 4

\* body before image prompt for one slide
Step(e) == IF e.svc = "prompt" THEN 2 ELSE 1

IsCall(i) == calls[i].ev = "call"
External(i) == calls[i].svc \in {"outline", "body", "prompt", "image"}

\* the calls the services have answered before event j
AnsweredBefore(j) ==
    {<<calls[r].svc, calls[r].slide>> : r \in {q \in 1..(j - 1) : calls[q].ev = "return"}}

\* event j enters stage st or a later one
Enters(j, st) ==
    /\ Stage(calls[j]) >= st
    /\ j = 1 \/ Stage(calls[j - 1]) < st

\* event j is the answer to the call right before it
AnswersPrevious(j) ==
    /\ j > 1
    /\ calls[j - 1] = Event(calls[j].svc, calls[j].slide, "call")

\* event j comes right after a call to a service
FollowsCall(j) ==
    /\ j > 1
    /\ External(j - 1)
    /\ IsCall(j - 1)

\* event j is a call of the stage of the call made before it
SameStageCall(j) ==
    /\ j > 2
    /\ IsCall(j)
    /\ IsCall(j - 2)
    /\ Stage(calls[j]) = Stage(calls[j - 2])

\* event j is in order with respect to everything recorded before it
EventInOrder(j) ==
    /\ calls[j].svc = "outline" /\ IsCall(j) => j = 1
    /\ j > 1 => Stage(calls[j - 1]) <= Stage(calls[j])
    /\ SameStageCall(j) =>
          \/ calls[j - 2].slide < calls[j].slide
          \/ /\ calls[j - 2].slide = calls[j].slide
             /\ Step(calls[j - 2]) < Step(calls[j])
    /\ Enters(j, 2) => <<"outline", 0>> \in AnsweredBefore(j)
    /\ Enters(j, 3) =>
          \A k \in 1..Len(structure_out.val) :
              {<<"body", k>>, <<"prompt", k>>} \subseteq AnsweredBefore(j)
    /\ (Enters(j, 4) /\ client) =>
          \A k \in 1..Len(slides_data) : <<"image", k>> \in AnsweredBefore(j)
    /\ FollowsCall(j) => AnswersPrevious(j)
    /\ (External(j) /\ ~IsCall(j)) => AnswersPrevious(j)

\* the events a step adds to the record are in order
StepInOrder ==
    \A j \in (Len(calls) + 1)..Len(calls') : EventInOrder(j)'

\* C11: in every step of a run the calls are made in stage order: the one
\* outline call comes first; every body and image-prompt call is answered
\* before the first image call and every image call before the document is
\* assembled; within a stage the slides are taken in index order, body
\* before image prompt; no call is made while another one is in flight.
C11_StageOrder == [][StepInOrder]_vars

C11_Witness ==
    /\ pc = "done"
    /\ result.success
    /\ client
    /\ slides_count = MinSlides
    /\ Len(calls) = 2 * (1 + 3 * MinSlides) + 1
    /\ calls[Len(calls)].svc = "assemble"
    /\ calls[Len(calls) - 1] = Event("image", MinSlides, "return")

\* ------------------------------------------------------------------------
\* Claims about the slide records
\* ------------------------------------------------------------------------
BodyAsked(k) == env[k].body # "-"
PromptAsked(k) == env[k].prompt # "-"

\* the text each call gives, from its own outcome alone
BodyFrom(k) ==
    IF env[k].body = "ok" THEN LlmBody ELSE FallbackBody(structure_out.val[k])
PromptFrom(k) ==
    IF env[k].prompt = "ok" THEN LlmPrompt ELSE FallbackPrompt

\* the run stopped on an exception raised outside the two calls
StoppedUnexpectedly == pc = "done" /\ result.error = "unexpected"

\* the image-prompt call for slide k is the next thing to happen
PromptIsNext(k) == pc = "prompt" /\ cursor + 1 = k

\* C12: for every slide the body call and the image-prompt call are
\* independent: each field is the model's text when its own call succeeded
\* and its own fallback text when its own call failed, whatever happened to
\* the other call, and after the body call, failed or not, the image-prompt
\* call is made.
C12_FieldsIndependent ==
    \A k \in 1..Len(structure_out.val) :
        /\ (BodyAsked(k) /\ ~StoppedUnexpectedly) => PromptAsked(k) \/ PromptIsNext(k)
        /\ PromptIsNext(k) => content_tmp = BodyFrom(k)
        /\ PromptAsked(k) =>
              /\ BodyAsked(k)
              /\ ~StoppedUnexpectedly => k <= Len(slides_data)
              /\ k <= Len(slides_data) =>
                    /\ slides_data[k].content = BodyFrom(k)
                    /\ slides_data[k].image_prompt = PromptFrom(k)
              /\ (Returned /\ result.success) =>
                    /\ result.slides_data[k].content = BodyFrom(k)
                    /\ result.slides_data[k].image_prompt = PromptFrom(k)

C12_Witness ==
    /\ Returned
    /\ result.success
    /\ env[1].body = "error"
    /\ \A k \in 1..slides_count : env[k].prompt = "ok"
    /\ result.slides_data[1].content = FallbackBody(structure_out.val[1])
    /\ result.slides_data[1].image_prompt = LlmPrompt
    /\ result.slides_data[2].content = LlmBody

\* the other way round: the image-prompt call fails and the body call of
\* the same slide and of the next one give the model's text
C12_WitnessPromptFails ==
    /\ Returned
    /\ result.success
    /\ env[1].prompt = "error"
    /\ result.slides_data[1].content = LlmBody
    /\ result.slides_data[1].image_prompt = FallbackPrompt
    /\ result.slides_data[2].content = LlmBody

\* C13: in every successful result there is one record per slide spec that
\* create_slide_structure returned, in the same order, with the title and
\* the design_type of that spec, and slide_number is the position of the
\* record counted from 1.
C13_RecordsFollowStructure ==
    (Returned /\ result.success) =>
        /\ Len(result.slides_data) = Len(structure_out.val)
        /\ \A k \in 1..Len(result.slides_data) :
              /\ result.slides_data[k].title = structure_out.val[k].title
              /\ result.slides_data[k].design_type = structure_out.val[k].design_type
              /\ result.slides_data[k].slide_number = k

C13_Witness ==
    /\ Returned
    /\ result.success
    /\ Len(structure_out.val) = MinSlides + 1
    /\ Len(result.slides_data) = MinSlides + 1
    /\ result.slides_data[2].image_path # NoneRef
    /\ result.slides_data[MinSlides + 1].slide_number = MinSlides + 1
    /\ result.slides_data[MinSlides + 1].design_type = "conclusion"

====
